---- MODULE Spec2Model ----
(***************************************************************************)
(* Model of visonic/alarm.py: the API transport client (tokens, one        *)
(* method per endpoint) and the System domain object (connect handshake,   *)
(* cached snapshot, status derivation, arm/disarm pass-through).           *)
(*                                                                         *)
(* Every public method is one action.  The server is the environment: the  *)
(* answer to each request is drawn with \E from the response sets below.   *)
(* `sent` is the list of requests the last call put on the wire and `last` *)
(* names that call, the exception it ended with and the status / alarms    *)
(* payloads it fetched.                                                    *)
(***************************************************************************)
EXTENDS Integers, Sequences, FiniteSets, TLC

VARIABLES
    partition,          \* API.__partition (constructor argument)
    user_token,         \* API.__user_token
    session_token,      \* API.__session_token
    system_serial,      \* System.__system_serial
    system_model,       \* System.__system_model
    system_ready,       \* System.__system_ready
    system_state,       \* System.__system_state
    system_connected,   \* System.__system_connected
    system_alarm,       \* System.__system_alarm
    system_troubles,    \* System.__system_troubles
    system_devices,     \* System.__system_devices
    sent,               \* requests sent by the last call, in order
    last                \* the last call: name, exception, payloads fetched

vars == <<partition, user_token, session_token, system_serial, system_model,
          system_ready, system_state, system_connected, system_alarm,
          system_troubles, system_devices, sent, last>>

snapshot == <<system_serial, system_model, system_ready, system_state,
              system_connected, system_alarm, system_troubles, system_devices>>

tokens == <<user_token, session_token>>

----------------------------------------------------------------------------
(* Bounds *)

MaxAlarms == 1      \* longest alarm-event list the server returns
NumTokens == 1      \* distinct token values the server hands out per kind
MaxDevices == 1     \* longest raw device list the server returns
MaxListed == 2      \* longest raw device list of the device refreshes taken alone
MaxEvents == 2      \* longest event list the server returns

----------------------------------------------------------------------------
(* Values *)

None == "None"

\* requests.codes.ok
StatusOk == 200

\* session.get / session.post raised something that is not an HTTPError
\* (no response object): the exception leaves the request helper.
NetErr == 0

\* status codes of the answers the server gives
HttpCodes == {StatusOk, 201, 401}

Partitions == {"-1", "1"}

UserTokens == {"ut" \o ToString(i) : i \in 1..NumTokens}

SessionTokens == {"st" \o ToString(i) : i \in 1..NumTokens}

RawStates == {"DISARM", "HOME", "AWAY"}

RawStatuses == {"NORMAL", "EXIT"}

StatusKeys == {"partitions", "ready", "connected", "state", "status"}

\* the key sets of the status payloads: complete, or one key missing
StatusKeySets == {StatusKeys} \cup {StatusKeys \ {k} : k \in StatusKeys}

\* no request of this kind was made by the call
NotAsked == 0 - 1

\* answers that are not a 200: an HTTP error status, or no answer at all
FailCodes == (HttpCodes \ {StatusOk}) \cup {NetErr}

----------------------------------------------------------------------------
(* What the server may answer.  A field a payload lacks, or one the code  *)
(* never reads before it fails, is held at a fixed default.               *)

DefStatus == [has |-> {}, ready |-> FALSE, connected |-> FALSE,
              state |-> "DISARM", status |-> "NORMAL"]

StatusPayloads ==
    { p \in [has : StatusKeySets, ready : BOOLEAN, connected : BOOLEAN,
             state : RawStates, status : RawStatuses] :
        /\ ({"partitions", "ready"} \subseteq p.has) \/ p = [DefStatus EXCEPT !.has = p.has]
        /\ "connected" \notin p.has =>
               p = [DefStatus EXCEPT !.has = p.has, !.ready = p.ready]
        /\ "status" \notin p.has => p.status = DefStatus.status
        /\ "state" \notin p.has => p.state = DefStatus.state /\ p.status = DefStatus.status }

StatusResponses ==
    { [code |-> StatusOk, body |-> p] : p \in StatusPayloads }
    \cup { [code |-> c, body |-> DefStatus] : c \in FailCodes }

NoStatus == [code |-> NotAsked, body |-> DefStatus]

AlarmLists == UNION { [1..n -> {"alarm_event"}] : n \in 0..MaxAlarms }

AlarmsResponses ==
    { [code |-> StatusOk, events |-> e] : e \in AlarmLists }
    \cup { [code |-> c, events |-> <<>>] : c \in FailCodes }

NoAlarms == [code |-> NotAsked, events |-> <<>>]

----------------------------------------------------------------------------
(* The request helpers *)

\* One request on the wire and what came back.  A header whose value is
\* None is not sent, so ut / st are None both when the flag is off and when
\* no token is stored.  code is the status of the answer; answer is what the
\* caller reads of its body: the versions listed, the token granted, the
\* keys present.
Request(ep, method, with_user_token, with_session_token, ut, st, body, code, answer) ==
    [ep |-> ep, method |-> method,
     ut |-> IF with_user_token THEN ut ELSE None,
     st |-> IF with_session_token THEN st ELSE None,
     body |-> body, code |-> code, answer |-> answer]

\* __send_get_request / __send_post_request: the parsed body on a 200, None
\* on every other status; an exception that is no HTTPError is not caught.
Raises(code) == code = NetErr

ReturnsNone(code) == code # StatusOk /\ code # NetErr

\* the panel-data GET endpoints, all sent with both tokens
GetEndpoints == {"status", "alarms", "troubles", "alerts", "panel_info", "events",
                 "wakeup_sms", "devices", "locations", "process_status"}

GetRequest(ep, ut, st, code, answer) ==
    Request(ep, "GET", TRUE, TRUE, ut, st, {}, code, answer)

----------------------------------------------------------------------------
(* System.update_status *)

Snap(r, c, s, a, e) == [ready |-> r, connected |-> c, state |-> s, alarm |-> a, err |-> e]

\* NoAlarmBranch as it would be with the HOME case of line 358 left out
NoAlarmBranch_AwayOnly(cur, p) ==
    IF "status" \notin p.has THEN [cur EXCEPT !.err = "KeyError"]
    ELSE IF "state" \notin p.has THEN [cur EXCEPT !.err = "KeyError"]
    ELSE IF p.status = "EXIT" /\ p.state = "AWAY"
         THEN [cur EXCEPT !.state = "ARMING"]
         ELSE [cur EXCEPT !.state = p.state, !.alarm = FALSE]

\* lines 357-362: no active alarm events
NoAlarmBranch(cur, p) ==
    IF "status" \notin p.has THEN [cur EXCEPT !.err = "KeyError"]
    ELSE IF "state" \notin p.has THEN [cur EXCEPT !.err = "KeyError"]
    ELSE IF p.status = "EXIT" /\ (p.state = "AWAY" \/ p.state = "HOME")
         THEN [cur EXCEPT !.state = "ARMING"]
         ELSE [cur EXCEPT !.state = p.state, !.alarm = FALSE]

\* AlarmBranch as it would be if it always kept the raw state
AlarmBranch_KeepsRawState(cur, p) ==
    IF "state" \notin p.has THEN [cur EXCEPT !.err = "KeyError"]
    ELSE [cur EXCEPT !.alarm = TRUE, !.state = p.state]

\* AlarmBranch as it would be if the exit delay were looked at first
AlarmBranch_ArmingOnExit(cur, p) ==
    IF "state" \notin p.has THEN [cur EXCEPT !.err = "KeyError"]
    ELSE IF "status" \in p.has /\ p.status = "EXIT"
         THEN [cur EXCEPT !.alarm = TRUE, !.state = "ARMING"]
    ELSE IF p.state = "HOME" \/ p.state = "AWAY"
         THEN [cur EXCEPT !.alarm = TRUE, !.state = "ALARM"]
         ELSE [cur EXCEPT !.alarm = TRUE, !.state = p.state]

\* lines 363-370: at least one active alarm event
AlarmBranch(cur, p) ==
    IF "state" \notin p.has THEN [cur EXCEPT !.err = "KeyError"]
    ELSE IF p.state = "HOME" \/ p.state = "AWAY"
         THEN [cur EXCEPT !.alarm = TRUE, !.state = "ALARM"]
         ELSE [cur EXCEPT !.alarm = TRUE, !.state = p.state]

\* the status answer lets update_status go on to the alarms request
AsksAlarms(sr) ==
    sr.code = StatusOk /\ {"partitions", "ready", "connected"} \subseteq sr.body.has

\* the alarms answers update_status can get after the status answer sr
AlarmsAfter(sr) == IF AsksAlarms(sr) THEN AlarmsResponses ELSE {NoAlarms}

\* lines 345-370; cur is the snapshot before the call, the result the
\* snapshot after it and the exception the call ended with ("" for none)
update_status(cur, sr, ar) ==
    LET p == sr.body IN
    IF Raises(sr.code) THEN [cur EXCEPT !.err = "ConnectionError"]
    ELSE IF ReturnsNone(sr.code) THEN [cur EXCEPT !.err = "TypeError"]
    ELSE IF "partitions" \notin p.has THEN [cur EXCEPT !.err = "KeyError"]
    ELSE IF "ready" \notin p.has THEN [cur EXCEPT !.err = "KeyError"]
    ELSE IF "connected" \notin p.has
         THEN [cur EXCEPT !.ready = p.ready, !.err = "KeyError"]
    ELSE LET c2 == [cur EXCEPT !.ready = p.ready, !.connected = p.connected] IN
         IF Raises(ar.code) THEN [c2 EXCEPT !.err = "ConnectionError"]
         ELSE IF ReturnsNone(ar.code) \/ Len(ar.events) = 0
              THEN NoAlarmBranch(c2, p)
              ELSE AlarmBranch(c2, p)

\* the requests update_status sends
StatusRequests(ut, st, sr, ar) ==
    <<GetRequest("status", ut, st, sr.code, sr.body.has)>>
    \o (IF AsksAlarms(sr) THEN <<GetRequest("alarms", ut, st, ar.code, {})>> ELSE <<>>)

CurSnap == Snap(system_ready, system_connected, system_state, system_alarm, "")

\* the record of a call: its name, the exception it raised ("" when it
\* returned), the status and alarms answers it fetched, the list it fetched
\* from any other endpoint, and what it returned (<<>>: None, <<v>>: v)
Call(op, err, sr, ar) ==
    [op |-> op, err |-> err, status |-> sr, alarms |-> ar, fetched |-> <<>>, ret |-> <<>>]

CallWith(op, err, fetched, ret) ==
    [op |-> op, err |-> err, status |-> NoStatus, alarms |-> NoAlarms,
     fetched |-> fetched, ret |-> ret]

\* System.update_status with the status answer drawn from SR
UpdateStatusOn(SR) ==
    \E sr \in SR : \E ar \in AlarmsAfter(sr) :
        \E new \in {update_status(CurSnap, sr, ar)} :
        /\ system_ready' = new.ready
        /\ system_connected' = new.connected
        /\ system_state' = new.state
        /\ system_alarm' = new.alarm
        /\ sent' = StatusRequests(user_token, session_token, sr, ar)
        /\ last' = Call("update_status", new.err, sr, ar)
        /\ UNCHANGED <<partition, tokens, system_serial, system_model,
                       system_troubles, system_devices>>

----------------------------------------------------------------------------
(* API.login / API.panel_login *)

\* json.dumps of a string and of an integer
JsonStr(s) == "\"" \o s \o "\""

JsonInt(i) == ToString(i)

TokenResponses(toks) ==
    { [code |-> StatusOk, has |-> TRUE, token |-> t] : t \in toks }
    \cup { [code |-> StatusOk, has |-> FALSE, token |-> None] }
    \cup { [code |-> c, has |-> FALSE, token |-> None] : c \in FailCodes }

LoginResponses == TokenResponses(UserTokens)

PanelLoginResponses == TokenResponses(SessionTokens)

\* lines 682 / 700: res['user_token'], res['session_token']
TokenError(r) ==
    IF Raises(r.code) THEN "ConnectionError"
    ELSE IF ReturnsNone(r.code) THEN "TypeError"
    ELSE IF ~r.has THEN "KeyError"
    ELSE ""

\* TokenAfter as it would be if a failed login dropped the stored token
TokenAfter_ClearsOnFailure(old, r) == IF TokenError(r) = "" THEN r.token ELSE None

\* the token stored after the call: assigned only when nothing was raised
TokenAfter(old, r) == IF TokenError(r) = "" THEN r.token ELSE old

login_info == {<<"email", JsonStr("user_email")>>, <<"password", JsonStr("user_password")>>,
               <<"app_id", JsonStr("app_id")>>}

panel_login_info == {<<"user_code", JsonStr("user_code")>>,
                     <<"app_type", JsonStr("com.visonic.PowerMaxApp")>>,
                     <<"app_id", JsonStr("app_id")>>,
                     <<"panel_serial", JsonStr("panel_id")>>}

\* the token an answer grants, as a set: empty when it grants none
Granted(r) == IF r.has THEN {r.token} ELSE {}

LoginRequest(ut, st, r) ==
    Request("auth", "POST", FALSE, FALSE, ut, st, login_info, r.code, Granted(r))

PanelLoginRequest(ut, st, r) ==
    Request("panel/login", "POST", TRUE, FALSE, ut, st, panel_login_info, r.code, Granted(r))

Login ==
    \E r \in LoginResponses :
        /\ user_token' = TokenAfter(user_token, r)
        /\ sent' = <<LoginRequest(user_token, session_token, r)>>
        /\ last' = Call("login", TokenError(r), NoStatus, NoAlarms)
        /\ UNCHANGED <<partition, session_token, snapshot>>

PanelLogin ==
    \E r \in PanelLoginResponses :
        /\ session_token' = TokenAfter(session_token, r)
        /\ sent' = <<PanelLoginRequest(user_token, session_token, r)>>
        /\ last' = Call("panel_login", TokenError(r), NoStatus, NoAlarms)
        /\ UNCHANGED <<partition, user_token, snapshot>>

----------------------------------------------------------------------------
(* arm / disarm *)

\* arm_home as it would be if the partition argument were put in the body
arm_home_ForwardsPartition(partition_arg) ==
    {<<"partition", JsonStr(partition_arg)>>, <<"state", JsonStr("HOME")>>}

\* lines 771-774, 790-793, 802-805: the command bodies
arm_home(partition_arg) == {<<"partition", JsonInt(-1)>>, <<"state", JsonStr("HOME")>>}

arm_away(partition_arg) == {<<"partition", JsonInt(-1)>>, <<"state", JsonStr("AWAY")>>}

disarm(partition_arg) == {<<"partition", JsonInt(-1)>>, <<"state", JsonStr("DISARM")>>}

Commands == {"arm_home", "arm_away", "disarm"}

CommandBody(cmd, partition_arg) ==
    CASE cmd = "arm_home" -> arm_home(partition_arg)
      [] cmd = "arm_away" -> arm_away(partition_arg)
      [] cmd = "disarm" -> disarm(partition_arg)

\* the one POST of a command
CommandRequests(cmd, partition_arg, code) ==
    <<Request("set_state", "POST", TRUE, TRUE, user_token, session_token,
              CommandBody(cmd, partition_arg), code, {})>>

\* CommandFrame as it would be if a command set the state it expects
CommandFrame_SetsArming ==
    /\ system_state' = "ARMING"
    /\ UNCHANGED <<partition, tokens, system_serial, system_model, system_ready,
                   system_connected, system_alarm, system_troubles, system_devices>>

\* what a command does to the cached snapshot and the tokens: nothing
CommandFrame == UNCHANGED <<partition, tokens, snapshot>>

\* API.arm_home / arm_away / disarm called with any partition argument
ApiCommand ==
    \E cmd \in Commands : \E p \in Partitions : \E code \in HttpCodes \cup {NetErr} :
        /\ sent' = CommandRequests(cmd, p, code)
        /\ last' = Call("API." \o cmd, IF Raises(code) THEN "ConnectionError" ELSE "",
                        NoStatus, NoAlarms)
        /\ CommandFrame

\* System.arm_home / arm_away / disarm: the configured partition is passed
SystemCommand ==
    \E cmd \in Commands : \E code \in HttpCodes \cup {NetErr} :
        /\ sent' = CommandRequests(cmd, partition, code)
        /\ last' = Call(cmd, IF Raises(code) THEN "ConnectionError" ELSE "",
                        NoStatus, NoAlarms)
        /\ CommandFrame

\* the exception a panel-data GET of the API ends with; get_process_status
\* indexes its result (line 786)
GetError(ep, code) ==
    IF Raises(code) THEN "ConnectionError"
    ELSE IF ep = "process_status" /\ ReturnsNone(code) THEN "TypeError"
    ELSE ""

\* any panel-data GET of the API called alone (get_status ... get_process_status)
ApiGet ==
    \E ep \in GetEndpoints : \E code \in HttpCodes \cup {NetErr} :
        /\ sent' = <<GetRequest(ep, user_token, session_token, code, {})>>
        /\ last' = Call("API.get_" \o ep, GetError(ep, code), NoStatus, NoAlarms)
        /\ UNCHANGED <<partition, tokens, snapshot>>

----------------------------------------------------------------------------
(* System.connect *)

VersionLists == {{"4.0"}, {"4.0", "8.0"}}

VersionResponses ==
    { [code |-> StatusOk, has |-> TRUE, rest_versions |-> v] : v \in VersionLists }
    \cup { [code |-> StatusOk, has |-> FALSE, rest_versions |-> {}] }
    \cup { [code |-> c, has |-> FALSE, rest_versions |-> {}] : c \in FailCodes }

InfoKeySets == {{"serial", "model"}, {"serial"}, {"model"}}

PanelInfoResponses ==
    { [code |-> StatusOk, has |-> h, serial |-> "serial1", model |-> "model1"] :
          h \in InfoKeySets }
    \cup { [code |-> c, has |-> {}, serial |-> None, model |-> None] : c \in FailCodes }

NoToken == [code |-> NotAsked, has |-> FALSE, token |-> None]

NoInfo == [code |-> NotAsked, has |-> {}, serial |-> None, model |-> None]

\* VersionError as it would be without the check for '8.0'
VersionError_Skips80Check(vr) ==
    IF Raises(vr.code) THEN "ConnectionError"
    ELSE IF ReturnsNone(vr.code) THEN "TypeError"
    ELSE IF ~vr.has THEN "KeyError"
    ELSE ""

\* lines 218-223: the version probe and the check for '8.0'
VersionError(vr) ==
    IF Raises(vr.code) THEN "ConnectionError"
    ELSE IF ReturnsNone(vr.code) THEN "TypeError"
    ELSE IF ~vr.has THEN "KeyError"
    ELSE IF "8.0" \notin vr.rest_versions THEN "Exception"
    ELSE ""

\* lines 235-237: gpi['serial'], gpi['model']
InfoError(ir) ==
    IF Raises(ir.code) THEN "ConnectionError"
    ELSE IF ReturnsNone(ir.code) THEN "TypeError"
    ELSE IF "serial" \notin ir.has \/ "model" \notin ir.has THEN "KeyError"
    ELSE ""

VersionRequest(vr) ==
    Request("version", "GET", FALSE, FALSE, None, None, {}, vr.code, vr.rest_versions)

\* lines 214-239.  cur holds the tokens and the snapshot before the call and
\* an empty request list; the result holds them after the call, the
\* exception it ended with and the requests it sent.
connect(cur, vr, lr, pr, ir, sr, ar) ==
    LET s1 == [cur EXCEPT !.sent = <<VersionRequest(vr)>>] IN
    IF VersionError(vr) # "" THEN [s1 EXCEPT !.err = VersionError(vr)]
    ELSE
    LET s2 == [s1 EXCEPT !.sent = @ \o <<LoginRequest(s1.ut, s1.st, lr)>>,
                         !.ut = TokenAfter(@, lr)] IN
    IF TokenError(lr) # "" THEN [s2 EXCEPT !.err = TokenError(lr)]
    ELSE
    LET s3 == [s2 EXCEPT !.sent = @ \o <<PanelLoginRequest(s2.ut, s2.st, pr)>>,
                         !.st = TokenAfter(@, pr)] IN
    IF TokenError(pr) # "" THEN [s3 EXCEPT !.err = TokenError(pr)]
    ELSE
    LET s4 == [s3 EXCEPT !.sent = @ \o <<GetRequest("panel_info", s3.ut, s3.st, ir.code, ir.has)>>,
                         !.serial = IF "serial" \in ir.has THEN ir.serial ELSE @,
                         !.model = IF {"serial", "model"} \subseteq ir.has
                                   THEN ir.model ELSE @] IN
    IF InfoError(ir) # "" THEN [s4 EXCEPT !.err = InfoError(ir)]
    ELSE
    [update_status(s4, sr, ar) EXCEPT !.sent = @ \o StatusRequests(s4.ut, s4.st, sr, ar)]

CurSystem ==
    [ut |-> user_token, st |-> session_token, serial |-> system_serial,
     model |-> system_model, ready |-> system_ready, connected |-> system_connected,
     state |-> system_state, alarm |-> system_alarm, err |-> "", sent |-> <<>>]

\* System.connect with the status answer of its update_status drawn from SR
ConnectOn(SR) ==
    \E vr \in VersionResponses :
    \E lr \in (IF VersionError(vr) = "" THEN LoginResponses ELSE {NoToken}) :
    \E pr \in (IF TokenError(lr) = "" THEN PanelLoginResponses ELSE {NoToken}) :
    \E ir \in (IF TokenError(pr) = "" THEN PanelInfoResponses ELSE {NoInfo}) :
    \E sr \in (IF InfoError(ir) = "" THEN SR ELSE {NoStatus}) :
    \E ar \in AlarmsAfter(sr) :
        \E new \in {connect(CurSystem, vr, lr, pr, ir, sr, ar)} :
        /\ user_token' = new.ut
        /\ session_token' = new.st
        /\ system_serial' = new.serial
        /\ system_model' = new.model
        /\ system_ready' = new.ready
        /\ system_connected' = new.connected
        /\ system_state' = new.state
        /\ system_alarm' = new.alarm
        /\ sent' = new.sent
        /\ last' = Call("connect", new.err, sr, ar)
        /\ UNCHANGED <<partition, system_troubles, system_devices>>

----------------------------------------------------------------------------
(* System.update_troubles / System.update_devices *)

TroublesResponses ==
    { [code |-> StatusOk, body |-> "troubles1"] }
    \cup { [code |-> c, body |-> None] : c \in FailCodes }

\* lines 375-377: the payload is cached as returned, None included
UpdateTroubles ==
    \E r \in TroublesResponses :
        /\ system_troubles' = IF Raises(r.code) THEN system_troubles ELSE r.body
        /\ sent' = <<GetRequest("troubles", user_token, session_token, r.code, {})>>
        /\ last' = Call("update_troubles", IF Raises(r.code) THEN "ConnectionError" ELSE "",
                        NoStatus, NoAlarms)
        /\ UNCHANGED <<partition, tokens, system_serial, system_model, system_ready,
                       system_state, system_connected, system_alarm, system_devices>>

Subtypes == {"CONTACT", "FLOOD"}

\* the raw device lists: the device at position i has id i
RawDeviceLists ==
    UNION { { [i \in 1..n |-> [id |-> i, subtype |-> f[i], complete |-> TRUE]] :
              f \in [1..n -> Subtypes] } :
            n \in 0..MaxDevices }

DevicesResponses ==
    { [code |-> StatusOk, devices |-> d] : d \in RawDeviceLists }
    \cup { [code |-> c, devices |-> <<>>] : c \in FailCodes }

\* every subtype the dispatch names, and one it does not name
AllSubtypes ==
    {"CONTACT", "CONTACT_AUX", "MOTION_CAMERA", "MOTION", "CURTAIN", "SMOKE", "FLOOD"}

DeviceIds == {1, 2}

\* The raw lists of a panel that answers anything: one device of any subtype,
\* and lists in which ids repeat, come in any order, and a device may lack
\* one of the keys the loop reads (complete = FALSE).
WideDeviceLists ==
    { <<[id |-> 1, subtype |-> s, complete |-> TRUE]>> : s \in AllSubtypes }
    \cup UNION { [1..n -> [id : DeviceIds, subtype : Subtypes, complete : BOOLEAN]] :
                 n \in 0..MaxListed }

WideDevicesResponses ==
    { [code |-> StatusOk, devices |-> d] : d \in WideDeviceLists }
    \cup { [code |-> c, devices |-> <<>>] : c \in FailCodes }

DeviceKind_CurtainIsGeneric(subtype) ==
    IF subtype = "CONTACT_AUX" \/ subtype = "CONTACT" THEN "ContactDevice"
    ELSE IF subtype = "MOTION_CAMERA" THEN "CameraDevice"
    ELSE IF subtype = "MOTION" THEN "MotionDevice"
    ELSE IF subtype = "SMOKE" THEN "SmokeDevice"
    ELSE "GenericDevice"

\* lines 388-447: the device class chosen from the subtype
DeviceKind(subtype) ==
    IF subtype = "CONTACT_AUX" \/ subtype = "CONTACT" THEN "ContactDevice"
    ELSE IF subtype = "MOTION_CAMERA" THEN "CameraDevice"
    ELSE IF subtype = "MOTION" \/ subtype = "CURTAIN" THEN "MotionDevice"
    ELSE IF subtype = "SMOKE" THEN "SmokeDevice"
    ELSE "GenericDevice"

\* the device objects built from a raw list, one per entry and in its order
Classified(raw) ==
    [i \in 1..Len(raw) |->
        [id |-> raw[i].id, subtype |-> raw[i].subtype, kind |-> DeviceKind(raw[i].subtype)]]

\* how many entries the loop appends before it stops: all of them, or those
\* before the first entry with a missing key (the KeyError is raised before
\* the append of that entry)
Appended(raw) ==
    LET bad == { i \in 1..Len(raw) : ~raw[i].complete }
    IN  IF bad = {} THEN Len(raw)
        ELSE (CHOOSE i \in bad : \A j \in bad : i <= j) - 1

update_devices_AppendsToOld(cur, r) ==
    IF Raises(r.code) THEN cur
    ELSE IF ReturnsNone(r.code) THEN <<>>
    ELSE cur \o SubSeq(Classified(r.devices), 1, Appended(r.devices))

\* lines 382-447: the list is cleared once the fetch has returned, then
\* rebuilt; iterating a None result raises after the clear
update_devices(cur, r) ==
    IF Raises(r.code) THEN cur
    ELSE IF ReturnsNone(r.code) THEN <<>>
    ELSE SubSeq(Classified(r.devices), 1, Appended(r.devices))

DevicesError(r) ==
    IF Raises(r.code) THEN "ConnectionError"
    ELSE IF ReturnsNone(r.code) THEN "TypeError"
    ELSE IF Appended(r.devices) < Len(r.devices) THEN "KeyError"
    ELSE ""

\* System.update_devices with the devices answer drawn from DR
UpdateDevicesOn(DR) ==
    \E r \in DR :
        /\ system_devices' = update_devices(system_devices, r)
        /\ sent' = <<GetRequest("devices", user_token, session_token, r.code, {})>>
        /\ last' = CallWith("update_devices", DevicesError(r), r.devices, <<>>)
        /\ UNCHANGED <<partition, tokens, system_serial, system_model, system_ready,
                       system_state, system_connected, system_alarm, system_troubles>>

UpdateDevices == UpdateDevicesOn(DevicesResponses)

\* update_devices called on a second System object of the same process.
\* __system_devices is bound once, in the class body (line 142); no method
\* assigns it on an instance, clear() and append() change the list object in
\* place, so self.__system_devices is the same list for every System.  The
\* second System has its own API object, which has not logged in.
OtherUpdateDevicesOn(DR) ==
    \E r \in DR :
        /\ system_devices' = update_devices(system_devices, r)
        /\ sent' = <<GetRequest("devices", None, None, r.code, {})>>
        /\ last' = CallWith("other.update_devices", DevicesError(r), r.devices, <<>>)
        /\ UNCHANGED <<partition, tokens, system_serial, system_model, system_ready,
                       system_state, system_connected, system_alarm, system_troubles>>

Instances == {"self", "other"}

\* lines 190-193: the devices property of either System
devices(inst) == system_devices

\* lines 195-200: the first cached device with that id, or None
\* (<<d>>: the device d, <<>>: None)
get_device_by_id(inst, id) ==
    LET hits == { i \in 1..Len(devices(inst)) : devices(inst)[i].id = id }
    IN  IF hits = {} THEN <<>>
        ELSE <<devices(inst)[CHOOSE i \in hits : \A j \in hits : i <= j]>>

----------------------------------------------------------------------------
(* System.get_last_event *)

\* the type ids the code names, and one it does not
TypeIds == {89, 85, 86, 2, 7}

\* the event's datetime string, read as a day and an hour of that day
Datetimes == { [day |-> 1, hour |-> 23] }

HourOffsets == {0 - 1, 0, 1}

\* the events the panel lists: the event at position i has id i
EventLists ==
    UNION { { [i \in 1..n |-> [event |-> i, type_id |-> f[i].type_id,
                               appointment |-> "user", datetime |-> f[i].datetime]] :
              f \in [1..n -> [type_id : TypeIds, datetime : Datetimes]] } :
            n \in 0..MaxEvents }

EventsResponses ==
    { [code |-> StatusOk, events |-> e] : e \in EventLists }
    \cup { [code |-> c, events |-> <<>>] : c \in FailCodes }

\* lines 254-264
EventAction(type_id) ==
    IF type_id = 89 THEN "Disarm"
    ELSE IF type_id = 85 THEN "ArmHome"
    ELSE IF type_id = 86 THEN "ArmAway"
    ELSE IF type_id = 2 THEN "Alarm"
    ELSE "Unknown type_id: " \o ToString(type_id)

\* dt + relativedelta(hours=h)
AddHours(dt, h) ==
    LET total == dt.day * 24 + dt.hour + h
    IN  [day |-> total \div 24, hour |-> total % 24]

\* dt.strftime: the day, a space, the hour on two digits
Strftime(dt) ==
    "day " \o ToString(dt.day) \o " "
    \o (IF dt.hour < 10 THEN "0" ELSE "") \o ToString(dt.hour) \o ":00:00"

\* lines 251-275: the record built from one event
EventData(e, timestamp_hour_offset) ==
    [event_id |-> e.event, action |-> EventAction(e.type_id), user |-> e.appointment,
     timestamp |-> Strftime(AddHours(e.datetime, timestamp_hour_offset))]

\* lines 244-277: None when the fetch gave None; events[-1] otherwise, which
\* raises IndexError on an empty list
get_last_event(r, timestamp_hour_offset) ==
    IF Raises(r.code) THEN [err |-> "ConnectionError", ret |-> <<>>]
    ELSE IF ReturnsNone(r.code) THEN [err |-> "", ret |-> <<>>]
    ELSE IF Len(r.events) = 0 THEN [err |-> "IndexError", ret |-> <<>>]
    ELSE [err |-> "", ret |-> <<EventData(r.events[Len(r.events)], timestamp_hour_offset)>>]

GetLastEvent ==
    \E r \in EventsResponses, off \in HourOffsets :
        \E out \in {get_last_event(r, off)} :
            /\ sent' = <<GetRequest("events", user_token, session_token, r.code, {})>>
            /\ last' = CallWith("get_last_event", out.err, r.events, out.ret)
            /\ UNCHANGED <<partition, tokens, snapshot>>

----------------------------------------------------------------------------
(* API.is_logged_in, System.is_token_valid *)

\* lines 702-708: True once get_status has returned.  get_status never raises
\* HTTPError (__send_get_request catches it, lines 558-561, and returns None
\* for every status but 200), so the except branch is never taken; any other
\* exception of the request is not caught here.
is_logged_in(code) ==
    IF Raises(code) THEN [err |-> "ConnectionError", ret |-> <<>>]
    ELSE [err |-> "", ret |-> <<"True">>]

IsLoggedIn ==
    \E sr \in StatusResponses :
        \E out \in {is_logged_in(sr.code)} :
            /\ sent' = <<GetRequest("status", user_token, session_token, sr.code, sr.body.has)>>
            /\ last' = CallWith("API.is_logged_in", out.err, <<>>, out.ret)
            /\ UNCHANGED <<partition, tokens, snapshot>>

\* lines 175-178: the property returns self.__api.is_logged_in, the method
\* object, without calling it: no request is sent
is_token_valid == "<bound method API.is_logged_in>"

IsTokenValid ==
    /\ sent' = <<>>
    /\ last' = CallWith("is_token_valid", "", <<>>, <<is_token_valid>>)
    /\ UNCHANGED <<partition, tokens, snapshot>>

\* bool(v) of a returned value
Truthy(v) == v \notin {"False", None}

----------------------------------------------------------------------------
(* The state after construction, and the calls a caller can make *)

Init ==
    /\ partition \in Partitions
    /\ user_token = None
    /\ session_token = None
    /\ system_serial = None
    /\ system_model = None
    /\ system_ready = FALSE
    /\ system_state = None
    /\ system_connected = FALSE
    /\ system_alarm = FALSE
    /\ system_troubles = None
    /\ system_devices = <<>>
    /\ sent = <<>>
    /\ last = Call("__init__", "", NoStatus, NoAlarms)

UpdateStatus == UpdateStatusOn(StatusResponses)

Connect == ConnectOn(StatusResponses)

\* every call, every answer
Next ==
    \/ Connect
    \/ Login
    \/ PanelLogin
    \/ UpdateStatus
    \/ UpdateTroubles
    \/ UpdateDevices
    \/ SystemCommand
    \/ ApiCommand
    \/ ApiGet

Spec == Init /\ [][Next]_vars

\* Status refreshes alone, with every status and alarms answer.  No other
\* call writes ready, connected, state or alarm, and connect() writes them
\* only through the same update_status.
NextStatus == UpdateStatus

SpecStatus == Init /\ [][NextStatus]_vars

\* The status answers of a panel that is armed away and well-formed, and the
\* failures: the sessions below are about tokens and requests, not about the
\* derivation.
PlainStatusResponses ==
    { sr \in StatusResponses :
        sr.code = StatusOk =>
            sr.body = [has |-> StatusKeys, ready |-> TRUE, connected |-> TRUE,
                       state |-> "AWAY", status |-> "NORMAL"] }

\* The session: the handshake, the logins, refreshes and requests in any order.
NextSession ==
    \/ ConnectOn(PlainStatusResponses)
    \/ Login
    \/ PanelLogin
    \/ UpdateStatusOn(PlainStatusResponses)
    \/ SystemCommand
    \/ ApiGet

SpecSession == Init /\ [][NextSession]_vars

\* Commands on a system whose every cached field has been filled.
NextCommand ==
    \/ ConnectOn(PlainStatusResponses)
    \/ UpdateTroubles
    \/ UpdateDevices
    \/ SystemCommand
    \/ ApiCommand

SpecCommand == Init /\ [][NextCommand]_vars

\* Device refreshes alone, on two System objects, with every devices answer.
NextDevices ==
    \/ UpdateDevicesOn(WideDevicesResponses)
    \/ OtherUpdateDevicesOn(WideDevicesResponses)

SpecDevices == Init /\ [][NextDevices]_vars

\* The queries that read the panel without caching anything, on a session
\* whose tokens the logins set.
NextQueries ==
    \/ Login
    \/ PanelLogin
    \/ GetLastEvent
    \/ IsLoggedIn
    \/ IsTokenValid

SpecQueries == Init /\ [][NextQueries]_vars

----------------------------------------------------------------------------
(* Properties *)

\* the last call was op and it returned without raising
Completed(op) == last.op = op /\ last.err = ""

\* the alarms fetch of the last call gave no active alarm event: an empty
\* list, or nothing
NoActiveAlarms == last.alarms.code # StatusOk \/ Len(last.alarms.events) = 0

\* the first partition of the status payload the last call fetched
RawPartition == last.status.body

\* the snapshot of a System on which update_status has never run
BlankSnap == Snap(FALSE, FALSE, None, FALSE, "")

\* C1 as stated: in every reachable state, alarmActive == true implies
\* state == "ALARM".
C1_AlarmImpliesAlarmState == system_alarm => system_state = "ALARM"

\* C1 amended: in every reachable state, alarmActive == true implies that
\* the state is "ALARM", or the raw partition state of a panel that was
\* neither HOME nor AWAY when the alarm was seen, or "ARMING" (a later
\* refresh without alarms during the exit delay); it is never HOME or AWAY.
C1_AlarmNeverShowsArmedState ==
    system_alarm =>
        \/ system_state = "ALARM"
        \/ system_state = "ARMING"
        \/ system_state \in RawStates \ {"HOME", "AWAY"}

C1_Witness == Completed("update_status") /\ system_alarm /\ system_state = "ALARM"

\* C2: after every update_status that completes, ready, connected, state
\* and alarm are what the payloads of that call alone give (the derivation
\* run on a blank snapshot), and alarm is false whenever the call saw no
\* active alarm event.
C2_SnapshotFromPayloadsOnly ==
    Completed("update_status") =>
        /\ CurSnap = update_status(BlankSnap, last.status, last.alarms)
        /\ NoActiveAlarms => ~system_alarm

\* C5: after an update_status that completes and saw no active alarm event
\* (empty list or none), the state is "ARMING" when the partition status is
\* EXIT and its state AWAY or HOME, and the raw partition state otherwise.
C5_NoAlarmDerivation ==
    (Completed("update_status") /\ NoActiveAlarms) =>
        system_state = IF RawPartition.status = "EXIT"
                          /\ RawPartition.state \in {"AWAY", "HOME"}
                       THEN "ARMING"
                       ELSE RawPartition.state

C5_Witness ==
    /\ Completed("update_status")
    /\ last.alarms.code # StatusOk
    /\ RawPartition.state = "HOME"
    /\ system_state = "ARMING"

\* C6: after an update_status that completes and saw at least one active
\* alarm event, alarm is true and the state is "ALARM" when the raw state is
\* HOME or AWAY and the raw state otherwise, whatever the partition status.
C6_AlarmDerivation ==
    (Completed("update_status") /\ ~NoActiveAlarms) =>
        /\ system_alarm
        /\ system_state = IF RawPartition.state \in {"HOME", "AWAY"}
                          THEN "ALARM"
                          ELSE RawPartition.state

C6_Witness ==
    /\ Completed("update_status")
    /\ ~NoActiveAlarms
    /\ RawPartition.status = "EXIT"
    /\ system_alarm
    /\ system_state = "ALARM"

\* the requests of a connect() that runs to its end, in order
ConnectSteps == <<"version", "auth", "panel/login", "panel_info", "status", "alarms">>

\* the answer to request q gave the step what it needs to go on
StepSucceeded(q) ==
    /\ q.code = StatusOk
    /\ CASE q.ep = "version" -> "8.0" \in q.answer
         [] q.ep \in {"auth", "panel/login"} -> q.answer # {}
         [] q.ep = "panel_info" -> {"serial", "model"} \subseteq q.answer
         [] q.ep = "status" -> {"partitions", "ready", "connected"} \subseteq q.answer
         [] OTHER -> TRUE

Disconnected ==
    /\ user_token = None
    /\ session_token = None
    /\ system_serial = None
    /\ system_model = None
    /\ system_state = None
    /\ ~system_ready
    /\ ~system_connected
    /\ ~system_alarm

\* C4: a connect() that raises leaves the System disconnected: no token,
\* serial number, model or snapshot field of this or an earlier attempt
\* remains.
C4_FailedConnectLeavesDisconnected ==
    (last.op = "connect" /\ last.err # "") => Disconnected

\* the panel-data and command endpoints
PanelEndpoints == GetEndpoints \cup {"set_state"}

\* C7: every request to a panel-data or command endpoint carries a user
\* token and a session token that a login handed out; panel login carries
\* a user token and no session token; the version probe and the login
\* carry neither.
C7_RequestsCarryLoginTokens ==
    \A i \in 1..Len(sent) :
        /\ sent[i].ep \in PanelEndpoints =>
              sent[i].ut \in UserTokens /\ sent[i].st \in SessionTokens
        /\ sent[i].ep = "panel/login" =>
              sent[i].ut \in UserTokens /\ sent[i].st = None
        /\ sent[i].ep \in {"version", "auth"} =>
              sent[i].ut = None /\ sent[i].st = None

\* the answer to a login request is no 2xx, or lacks the token field
Refused(q) == q.code \notin 200..299 \/ q.answer = {}

\* C8: a login() or panel_login() whose answer is no 2xx or lacks the token
\* field raises and leaves the stored token as it was; a stored token
\* changes only to the token of a 2xx answer that holds the field.
C8_TokenKeptOnRefusal ==
    [][ /\ \A i \in 1..Len(sent') :
              /\ (sent'[i].ep = "auth" /\ Refused(sent'[i])) =>
                    last'.err # "" /\ user_token' = user_token
              /\ (sent'[i].ep = "panel/login" /\ Refused(sent'[i])) =>
                    last'.err # "" /\ session_token' = session_token
        /\ user_token' # user_token =>
              \E i \in 1..Len(sent') :
                  /\ sent'[i].ep = "auth" /\ ~Refused(sent'[i])
                  /\ user_token' \in sent'[i].answer
        /\ session_token' # session_token =>
              \E i \in 1..Len(sent') :
                  /\ sent'[i].ep = "panel/login" /\ ~Refused(sent'[i])
                  /\ session_token' \in sent'[i].answer ]_vars

C8_Witness ==
    /\ last.op = "login"
    /\ last.err # ""
    /\ Refused(sent[1])
    /\ user_token \in UserTokens

\* the state a command asks for
CommandState(op) ==
    CASE op \in {"arm_home", "API.arm_home"} -> "HOME"
      [] op \in {"arm_away", "API.arm_away"} -> "AWAY"
      [] op \in {"disarm", "API.disarm"} -> "DISARM"

CommandOps == Commands \cup {"API." \o c : c \in Commands}

\* C9: arm_home, arm_away and disarm, of System and of API, send one POST
\* to set_state whose body is {"partition": -1, "state": S} with S the
\* command's state, whatever the configured partition and the argument.
C9_CommandBodyFixed ==
    last.op \in CommandOps =>
        /\ Len(sent) = 1
        /\ sent[1].ep = "set_state"
        /\ sent[1].method = "POST"
        /\ sent[1].body = {<<"partition", "-1">>,
                           <<"state", "\"" \o CommandState(last.op) \o "\"">>}

C9_Witness == last.op = "arm_home" /\ partition = "1" /\ Len(sent) = 1

\* C10: a step of System.arm_home, arm_away or disarm changes no cached
\* field and no token, whether the server accepts the command or not.
C10_CommandsChangeNothing ==
    [][ last'.op \in Commands => snapshot' = snapshot /\ tokens' = tokens ]_vars

C10_Witness ==
    /\ last.op \in Commands
    /\ sent[1].code \in HttpCodes \ {StatusOk}
    /\ user_token # None
    /\ session_token # None
    /\ system_serial # None
    /\ system_model # None
    /\ system_state # None
    /\ system_troubles # None
    /\ system_devices # <<>>


\* update_devices, on either System object
UpdateDevicesOps == {"update_devices", "other.update_devices"}

\* C11: after an update_devices call that returned, the cached list is the
\* classified image of the raw list that call fetched: as long as it, with the
\* id and subtype of the raw entry at every position and the kind the
\* dispatch gives that subtype; nothing of an earlier refresh is left.
C11_CacheIsImageOfFetch ==
    (last.op \in UpdateDevicesOps /\ last.err = "") =>
        /\ Len(system_devices) = Len(last.fetched)
        /\ \A i \in 1..Len(last.fetched) :
               /\ system_devices[i].id = last.fetched[i].id
               /\ system_devices[i].subtype = last.fetched[i].subtype
               /\ system_devices[i].kind = DeviceKind(last.fetched[i].subtype)

\* a refresh returned after fetching two devices whose ids come in
\* descending order
C11_Witness ==
    /\ last.op \in UpdateDevicesOps /\ last.err = ""
    /\ Len(last.fetched) = 2
    /\ last.fetched[1].id > last.fetched[2].id
    /\ Len(system_devices) = 2

\* the kind the subtype table gives
TableKind(subtype) ==
    CASE subtype \in {"CONTACT", "CONTACT_AUX"} -> "ContactDevice"
      [] subtype = "MOTION_CAMERA" -> "CameraDevice"
      [] subtype \in {"MOTION", "CURTAIN"} -> "MotionDevice"
      [] subtype = "SMOKE" -> "SmokeDevice"
      [] OTHER -> "GenericDevice"

\* C12: the kind of every device cached by an update_devices call that
\* returned is the one the table gives its subtype (CONTACT and CONTACT_AUX:
\* Contact, MOTION_CAMERA: Camera, MOTION and CURTAIN: Motion, SMOKE: Smoke,
\* any other: Generic), and a second call that fetches the same raw list
\* gives every device the same kind again.
C12_KindFromSubtypeAlone ==
    /\ [](last.op \in UpdateDevicesOps /\ last.err = "" =>
            \A i \in 1..Len(system_devices) :
                system_devices[i].kind = TableKind(system_devices[i].subtype))
    /\ [][(/\ last.op \in UpdateDevicesOps /\ last.err = ""
           /\ last'.op \in UpdateDevicesOps /\ last'.err = ""
           /\ last'.fetched = last.fetched)
          => /\ Len(system_devices') = Len(system_devices)
             /\ \A i \in 1..Len(system_devices) :
                    system_devices'[i].kind = system_devices[i].kind]_vars

\* a refresh returned with a CURTAIN device in the list, cached as a motion
\* device
C12_Witness ==
    /\ last.op \in UpdateDevicesOps /\ last.err = ""
    /\ Len(system_devices) = 1
    /\ system_devices[1].subtype = "CURTAIN"
    /\ system_devices[1].kind = "MotionDevice"

\* C13: get_last_event returns nothing, without raising, whenever there are
\* no events (the events fetch answered but gave no list, or gave an empty
\* list); otherwise it returns the record built from the last entry of the
\* fetched list.
C13_NoEventsGivesNothing ==
    (last.op = "get_last_event" /\ sent[1].code \in HttpCodes) =>
        IF sent[1].code # StatusOk \/ Len(last.fetched) = 0
        THEN last.err = "" /\ last.ret = <<>>
        ELSE /\ last.err = ""
             /\ \E off \in HourOffsets :
                    last.ret = <<EventData(last.fetched[Len(last.fetched)], off)>>

\* the server answered with a status outside 200..299
Rejected(code) == code \in HttpCodes /\ code \div 100 # 2

\* the server answered with a status in 200..299
Succeeded(code) == code \in HttpCodes /\ code \div 100 = 2

\* C14: the token-validity check (API.is_logged_in, System.is_token_valid)
\* reports false whenever the status request it made was rejected with a
\* non-2xx status, and reports true only when that request succeeded.
C14_TokenCheckReportsRejection ==
    /\ (last.op = "API.is_logged_in" /\ last.err = "") =>
           /\ Rejected(sent[1].code) => ~Truthy(last.ret[1])
           /\ Truthy(last.ret[1]) => Succeeded(sent[1].code)
    /\ last.op = "is_token_valid" =>
           (Truthy(last.ret[1]) => Len(sent) = 1 /\ Succeeded(sent[1].code))

\* what a caller can see of the device list of one System
DeviceView(inst) == <<devices(inst), [id \in DeviceIds |-> get_device_by_id(inst, id)]>>

\* C15: the cached device list belongs to one System: an update_devices
\* call on either System leaves what the other returns from devices and from
\* get_device_by_id as it was.
C15_DevicesPerInstance ==
    [][/\ last'.op = "update_devices" => DeviceView("other")' = DeviceView("other")
       /\ last'.op = "other.update_devices" => DeviceView("self")' = DeviceView("self")]_vars

\* C16: update_status is all-or-nothing: a call that raises (the status
\* fetch failed or gave nothing, a field of the payload was missing, the
\* alarms fetch raised) leaves ready, connected, state and alarm as they were.
C16_FailedRefreshChangesNothing ==
    [][(last'.op = "update_status" /\ last'.err # "") =>
          <<system_ready, system_connected, system_state, system_alarm>>'
              = <<system_ready, system_connected, system_state, system_alarm>>]_vars

====
